---- MODULE Spec2Model ----
(***************************************************************************)
(* Model of the ucli-server crate (src/ucli-server/src/lib.rs): the        *)
(* process-wide instance slot and adapter slot, the embedding caller's     *)
(* entry points (run, stop, on_csharp_assembly_unload, the two event       *)
(* entry points), the worker thread with its scoped GlobalStatesGuard, the *)
(* three loops raced in one tokio::select!, and the per-connection read    *)
(* and write pumps with their channels and the DashMap registry.           *)
(*                                                                         *)
(* None is written 0 throughout.                                           *)
(***************************************************************************)
EXTENDS Integers, Sequences, FiniteSets, TLC

\* ---------------------------------------------------------------- bounds
\* Number of Instance values run() may install.
MaxInst == 2
\* Number of connections the listener accepts.
MaxConn == 2
\* Number of events the adapter emits.
MaxEvents == 2
\* Number of events the adapter emits in a burst (SpecDelivery): enough to
\* fill a per-connection channel while one message is being written and one
\* more waits to be enqueued.
MaxBurst == 3
\* Number of frames the clients write.
MaxCmds == 2
\* Number of accept() errors.
MaxAcceptErr == 1
\* Number of DashMap shards (machine dependent in the crate: 4 * cores).
NumShards == 2
\* Capacity of a per-connection channel (8 at lib.rs:162), scaled down.
MsgChanCap == 1
\* Capacity of the inbound-command channel (10 at lib.rs:153), scaled down.
CmdChanCap == 1
\* Number of values of one half of a ConnectionId (2^64 in the crate).
UuidHalf == 2

\* Number of values of a byte (256 in the crate).
ByteBase == 4
\* Largest payload LengthDelimitedCodec takes (max_frame_length, 8 MiB when
\* the builder does not set it), scaled down.
MaxFrameLen == 6
\* Number of messages the codec peers exchange.
MaxFrames == 2

\* Number of ServiceResolved events client discovery receives before its
\* deadline.
MaxResolved == 2

\* ------------------------------------------------------ program constants
\* Bytes of the length prefix: u32.
LenFieldBytes == 4
\* tokio::sync::mpsc::channel(1), the stop channel.
StopChanCap == 1
\* The byte CString::new rejects.
NUL == 0

\* ------------------------------------------------------------ value sets
Inst == 1..MaxInst
Conn == 1..MaxConn
Shard == 1..NumShards
Half == 0..(UuidHalf - 1)
\* The command callbacks the embedding caller can pass to run().
Callbacks == 1..2
\* The ids the adapter tags its events with: every connection and id 0,
\* which no connection has.
EventTargets == 0..MaxConn

\* The CommandRequest payloads clients send: cmd and args are byte strings.
CmdInputs ==
  { [cmd |-> <<1>>, args |-> << <<2>>, <<3>> >>],
    [cmd |-> <<1>>, args |-> << <<2, NUL, 3>> >>] }
\* A frame whose payload does not deserialize as a ClientMessage.
BadFrame == [cmd |-> <<>>, args |-> <<>>]
Frames == CmdInputs \cup {BadFrame}

NoMsg == [to |-> 0, n |-> 0, tag |-> <<0, 0>>]
NoCmd == [uuid |-> 0, n |-> 0, cmd |-> <<>>, args |-> <<>>]

\* ------------------------------------------------------------- conversions
\* Uuid::as_u64_pair: the high and the low half of the id.
AsU64Pair(u) == <<u \div UuidHalf, u % UuidHalf>>

FromU64PairSwapped(hi, lo) == lo * UuidHalf + hi
\* Uuid::from_u64_pair: the id whose halves are hi and lo.
FromU64Pair(hi, lo) == hi * UuidHalf + lo

\* A byte string holds an interior NUL.
HasNul(s) == \E k \in DOMAIN s : s[k] = NUL

\* CString::new(..).unwrap() panics for the command or one of its arguments.
CStringPanics(c) == HasNul(c.cmd) \/ \E k \in DOMAIN c.args : HasNul(c.args[k])

VARIABLES
  instance,        \* INSTANCE slot: 0 or the Instance it holds
  unity_state,     \* UNITY_STATE slot: 0 or the registered cmd_cb
  logInit,         \* the global tracing subscriber is installed
  procAborted,     \* the process died of a panic in an extern "C" fn
  callerPc,        \* position of the embedding caller's thread
  callerCb,        \* command_callback of the run() call in progress
  callerInst,      \* Instance the run() call in progress installed
  nextInst,        \* next Instance value
  wpc,             \* per Instance: position of its worker thread
  stop_chan,       \* per Instance: number of () queued on stop_tx
  stop_rx,         \* per Instance: stop_rx is alive
  unity_msg_chan,  \* per Instance: (uuid, msg) pairs queued on unity_msg_send
  unity_msg_rx,    \* per Instance: unity_msg_rx is alive
  listener,        \* Instances whose listening socket is open
  conns,           \* the DashMap: ids that have an entry (uuid -> msg_tx)
  shardOf,         \* per connection: the shard its uuid hashes to
  nextConn,        \* next connection (its uuid)
  acceptErrs,      \* accept() errors so far
  apc,             \* accept_conn_loop position
  rpc,             \* route_msg_from_unity_loop position
  routeMsg,        \* the message route_msg_from_unity_loop is sending
  dpc,             \* send_cmd_to_unity_loop position
  cmd_chan,        \* (uuid, cmd, args) queued on cmd_tx
  cmd_rx,          \* cmd_rx is alive
  msg_chan,        \* per connection: messages queued on msg_tx
  msg_rx,          \* per connection: msg_rx is alive
  wp,              \* per connection: handle_write position
  wmsg,            \* per connection: message handle_write is writing
  rp,              \* per connection: handle_read position
  rcmd,            \* per connection: command handle_read is sending
  inSock,          \* per connection: frames the client wrote, not yet read
  clientClosed,    \* per connection: the client closed its socket
  sockOut,         \* per connection: messages written to the client
  calls,           \* invocations of the command callback, in order
  decoded,         \* CommandRequests decoded by the read pumps
  taken,           \* commands received from cmd_rx while a callback was set
  dropped,         \* events dropped on a registry miss
  nEvents,         \* events emitted so far
  nCmds            \* frames written so far

VARIABLES
  cMsgs,           \* the messages the writing peer sends, in order
  cEnc,            \* the writing peer's codec form: "sync" or "async"
  cDec,            \* the reading peer's codec form: "sync" or "async"
  cSent,           \* messages encoded so far
  cWire,           \* bytes written, not yet arrived at the reading peer
  cSrc,            \* bytes arrived, not yet consumed by the decoder
  cState,          \* LengthDelimitedCodec decode state: -1 Head, n Data(n)
  cOut,            \* messages decoded so far, in order
  cLast,           \* result of the latest decode call: none, some, err
  cErr             \* "none", or the call that returned Err

codecVars == <<cMsgs, cEnc, cDec, cSent, cWire, cSrc, cState, cOut, cLast, cErr>>

VARIABLES
  dArgs,           \* DiscoveryArgs: path, project, session (each may be None)
  dWorkdir,        \* workdir
  dPc,             \* discover_service: off, browsing, returned, panicked
  dServices,       \* services: the candidates pushed so far
  dResolved,       \* ServiceResolved events received so far
  dDeadline,       \* recv_deadline has returned Err: the deadline passed
  dResult          \* the Service of Ok(service), once returned

discVars == <<dArgs, dWorkdir, dPc, dServices, dResolved, dDeadline, dResult>>

lifeVars == <<instance, unity_state, logInit, procAborted, callerPc, callerCb,
              callerInst, nextInst, wpc>>
chanVars == <<stop_chan, stop_rx, unity_msg_chan, unity_msg_rx>>
loopVars == <<listener, conns, shardOf, nextConn, acceptErrs, apc, rpc,
              routeMsg, dpc, cmd_chan, cmd_rx>>
connVars == <<msg_chan, msg_rx, wp, wmsg, rp, rcmd, inSock, clientClosed,
              sockOut>>
logVars  == <<calls, decoded, taken, dropped, nEvents, nCmds>>
vars == <<lifeVars, chanVars, loopVars, connVars, logVars, codecVars, discVars>>

\* Option<String>::None and Option<PathBuf>::None of DiscoveryArgs.
NoName == <<0>>
NoPath == 0

\* The Service no call has returned.
NoService == [addr |-> FALSE, props |-> FALSE, path |-> NoPath,
              project |-> NoName, session |-> NoName]

\* No client discovery is under way.
DiscoveryOff ==
  /\ dArgs = [path |-> NoPath, project |-> NoName, session |-> NoName]
  /\ dWorkdir = NoPath
  /\ dPc = "off"
  /\ dServices = <<>>
  /\ dResolved = 0
  /\ dDeadline = FALSE
  /\ dResult = NoService

\* No codec peer exchanges anything.
CodecIdle ==
  /\ cMsgs = <<>>
  /\ cEnc = "sync"
  /\ cDec = "sync"
  /\ cSent = 0
  /\ cWire = <<>>
  /\ cSrc = <<>>
  /\ cState = -1
  /\ cOut = <<>>
  /\ cLast = "none"
  /\ cErr = "none"

\* The server before the first call of run().
ServerInit ==
  /\ instance = 0
  /\ unity_state = 0
  /\ logInit = FALSE
  /\ procAborted = FALSE
  /\ callerPc = "idle"
  /\ callerCb = 0
  /\ callerInst = 0
  /\ nextInst = 1
  /\ wpc = [i \in Inst |-> "none"]
  /\ stop_chan = [i \in Inst |-> 0]
  /\ stop_rx = [i \in Inst |-> FALSE]
  /\ unity_msg_chan = [i \in Inst |-> <<>>]
  /\ unity_msg_rx = [i \in Inst |-> FALSE]
  /\ listener = {}
  /\ conns = {}
  /\ shardOf = [u \in Conn |-> 0]
  /\ nextConn = 1
  /\ acceptErrs = 0
  /\ apc = "none"
  /\ rpc = "none"
  /\ routeMsg = NoMsg
  /\ dpc = "none"
  /\ cmd_chan = <<>>
  /\ cmd_rx = FALSE
  /\ msg_chan = [u \in Conn |-> <<>>]
  /\ msg_rx = [u \in Conn |-> FALSE]
  /\ wp = [u \in Conn |-> "none"]
  /\ wmsg = [u \in Conn |-> NoMsg]
  /\ rp = [u \in Conn |-> "none"]
  /\ rcmd = [u \in Conn |-> NoCmd]
  /\ inSock = [u \in Conn |-> <<>>]
  /\ clientClosed = [u \in Conn |-> FALSE]
  /\ sockOut = [u \in Conn |-> <<>>]
  /\ calls = <<>>
  /\ decoded = {}
  /\ taken = {}
  /\ dropped = {}
  /\ nEvents = 0
  /\ nCmds = 0

Init == ServerInit /\ CodecIdle /\ DiscoveryOff

\* ------------------------------------------------- the embedding caller
\* instance().blocking_write() / blocking_read() can be taken: stop() is the
\* only entry point that holds the lock across a blocking operation.
InstanceLockFree == callerPc # "stop_send"

UnityLockFreeAlways == TRUE
\* unity_state().blocking_write() can be taken: send_cmd_to_unity_loop holds
\* the read guard for the whole callback invocation.
UnityLockFree == dpc # "in_cb"

SlotOccupiedNever(inst) == FALSE
\* instance.is_some() in run().
SlotOccupied(inst) == inst # 0

RegisteredCallbackKept(old, cb) == IF old # 0 THEN old ELSE cb
\* Some(UnityState { cmd_cb: command_callback }) written over the adapter
\* slot, whatever it held.
RegisteredCallback(old, cb) == cb

\* run(), first statement: the adapter slot takes command_callback.
RunBegin(cb) ==
  /\ ~procAborted
  /\ callerPc = "idle"
  /\ nextInst <= MaxInst
  /\ UnityLockFree
  /\ unity_state' = RegisteredCallback(unity_state, cb)
  /\ callerCb' = cb
  /\ callerPc' = "run_check"
  /\ UNCHANGED <<instance, logInit, procAborted, callerInst, nextInst, wpc>>
  /\ UNCHANGED <<chanVars, loopVars, connVars, logVars>>
  /\ UNCHANGED <<codecVars, discVars>>

\* run(), the block that holds the instance lock: return when the slot is
\* occupied, else install a new Instance with its two fresh channels.
RunCheck ==
  /\ ~procAborted
  /\ callerPc = "run_check"
  /\ IF SlotOccupied(instance)
       THEN /\ callerPc' = "idle"
            /\ callerCb' = 0
            /\ UNCHANGED <<instance, callerInst, nextInst, chanVars>>
       ELSE /\ instance' = nextInst
            /\ callerInst' = nextInst
            /\ nextInst' = nextInst + 1
            /\ stop_chan' = [stop_chan EXCEPT ![nextInst] = 0]
            /\ stop_rx' = [stop_rx EXCEPT ![nextInst] = TRUE]
            /\ unity_msg_chan' = [unity_msg_chan EXCEPT ![nextInst] = <<>>]
            /\ unity_msg_rx' = [unity_msg_rx EXCEPT ![nextInst] = TRUE]
            /\ callerPc' = "run_init"
            /\ UNCHANGED callerCb
  /\ UNCHANGED <<unity_state, logInit, procAborted, wpc>>
  /\ UNCHANGED <<loopVars, connVars, logVars>>
  /\ UNCHANGED <<codecVars, discVars>>

\* run(), the rest: tracing_subscriber init succeeds the first time and the
\* worker thread is spawned.
RunInitOk ==
  /\ ~procAborted
  /\ callerPc = "run_init"
  /\ ~logInit
  /\ logInit' = TRUE
  /\ wpc' = [wpc EXCEPT ![callerInst] = "start"]
  /\ callerPc' = "idle"
  /\ callerCb' = 0
  /\ callerInst' = 0
  /\ UNCHANGED <<instance, unity_state, procAborted, nextInst>>
  /\ UNCHANGED <<chanVars, loopVars, connVars, logVars>>
  /\ UNCHANGED <<codecVars, discVars>>

\* run(), the rest: init() panics when a global subscriber is already set;
\* a panic leaving an extern "C" fn aborts the process.
RunInitPanicAbort ==
  /\ ~procAborted
  /\ callerPc = "run_init"
  /\ logInit
  /\ procAborted' = TRUE
  /\ UNCHANGED <<instance, unity_state, logInit, callerPc, callerCb,
                 callerInst, nextInst, wpc>>
  /\ UNCHANGED <<chanVars, loopVars, connVars, logVars>>
  /\ UNCHANGED <<codecVars, discVars>>

\* run(), the rest: the same panic on a toolchain that unwinds into the
\* caller: stop_rx and unity_msg_rx are dropped, no thread is spawned and
\* the slot keeps the Instance.
RunInitPanicUnwind ==
  /\ ~procAborted
  /\ callerPc = "run_init"
  /\ logInit
  /\ stop_rx' = [stop_rx EXCEPT ![callerInst] = FALSE]
  /\ unity_msg_rx' = [unity_msg_rx EXCEPT ![callerInst] = FALSE]
  /\ callerPc' = "idle"
  /\ callerCb' = 0
  /\ callerInst' = 0
  /\ UNCHANGED <<instance, unity_state, logInit, procAborted, nextInst, wpc>>
  /\ UNCHANGED <<stop_chan, unity_msg_chan>>
  /\ UNCHANGED <<loopVars, connVars, logVars>>
  /\ UNCHANGED <<codecVars, discVars>>

\* stop(): with the instance lock held, blocking_send(()) on stop_tx. The
\* send returns at once when the channel has room or the receiver is gone,
\* else the caller stays blocked holding the lock.
Stop ==
  /\ ~procAborted
  /\ callerPc = "idle"
  /\ IF instance = 0
       THEN UNCHANGED <<callerPc, stop_chan>>
       ELSE IF ~stop_rx[instance]
         THEN UNCHANGED <<callerPc, stop_chan>>
         ELSE IF stop_chan[instance] < StopChanCap
           THEN /\ stop_chan' = [stop_chan EXCEPT ![instance] = @ + 1]
                /\ UNCHANGED callerPc
           ELSE /\ callerPc' = "stop_send"
                /\ UNCHANGED stop_chan
  /\ UNCHANGED <<instance, unity_state, logInit, procAborted, callerCb,
                 callerInst, nextInst, wpc>>
  /\ UNCHANGED <<stop_rx, unity_msg_chan, unity_msg_rx>>
  /\ UNCHANGED <<loopVars, connVars, logVars>>
  /\ UNCHANGED <<codecVars, discVars>>

\* stop(), the blocked blocking_send completes: the receiver took the
\* queued () or was dropped.
StopSendComplete ==
  /\ ~procAborted
  /\ callerPc = "stop_send"
  /\ \/ ~stop_rx[instance]
     \/ stop_chan[instance] < StopChanCap
  /\ stop_chan' = IF stop_rx[instance]
                    THEN [stop_chan EXCEPT ![instance] = @ + 1]
                    ELSE stop_chan
  /\ callerPc' = "idle"
  /\ UNCHANGED <<instance, unity_state, logInit, procAborted, callerCb,
                 callerInst, nextInst, wpc>>
  /\ UNCHANGED <<stop_rx, unity_msg_chan, unity_msg_rx>>
  /\ UNCHANGED <<loopVars, connVars, logVars>>
  /\ UNCHANGED <<codecVars, discVars>>

\* is_running().
is_running == instance # 0

\* on_csharp_assembly_unload().
Unload ==
  /\ ~procAborted
  /\ callerPc = "idle"
  /\ UnityLockFree
  /\ unity_state' = 0
  /\ UNCHANGED <<instance, logInit, procAborted, callerPc, callerCb,
                 callerInst, nextInst, wpc>>
  /\ UNCHANGED <<chanVars, loopVars, connVars, logVars>>
  /\ UNCHANGED <<codecVars, discVars>>

UnboundedSendFront(q, e) == <<e>> \o q
\* unity_msg_send.send(e) on the unbounded channel whose queue is q.
UnboundedSend(q, e) == Append(q, e)

\* on_unity_console_log / on_command_finish called with (uuid_hi, uuid_lo):
\* with the instance read lock, send (Uuid::from_u64_pair(hi, lo), msg) on
\* unity_msg_send; the send fails when the receiver is gone.
EmitEventUpTo(hi, lo, max) ==
  /\ ~procAborted
  /\ InstanceLockFree
  /\ nEvents < max
  /\ instance # 0
  /\ nEvents' = nEvents + 1
  /\ unity_msg_chan' =
       IF unity_msg_rx[instance]
         THEN [unity_msg_chan EXCEPT ![instance] =
                 UnboundedSend(@, [to |-> FromU64Pair(hi, lo),
                                   n |-> nEvents + 1, tag |-> <<hi, lo>>])]
         ELSE unity_msg_chan
  /\ UNCHANGED <<lifeVars, stop_chan, stop_rx, unity_msg_rx>>
  /\ UNCHANGED <<loopVars, connVars, calls, decoded, taken, dropped, nCmds>>
  /\ UNCHANGED <<codecVars, discVars>>

\* The adapter emits one of its MaxEvents events.
EmitEvent(hi, lo) == EmitEventUpTo(hi, lo, MaxEvents)

\* The adapter emits one event of a burst of MaxBurst events.
EmitBurst(hi, lo) == EmitEventUpTo(hi, lo, MaxBurst)

\* ------------------------------------------------------ the worker thread
\* The thread body up to rt.block_on: socket bind/listen, mdns register and
\* runtime build all succeed; the three loops start.
WorkerStart(i) ==
  /\ ~procAborted
  /\ wpc[i] = "start"
  /\ wpc' = [wpc EXCEPT ![i] = "running"]
  /\ listener' = listener \cup {i}
  /\ apc' = "accept"
  /\ rpc' = "recv"
  /\ dpc' = "recv"
  /\ cmd_rx' = TRUE
  /\ cmd_chan' = <<>>
  /\ UNCHANGED <<instance, unity_state, logInit, procAborted, callerPc,
                 callerCb, callerInst, nextInst>>
  /\ UNCHANGED <<conns, shardOf, nextConn, acceptErrs, routeMsg>>
  /\ UNCHANGED <<chanVars, connVars, logVars>>
  /\ UNCHANGED <<codecVars, discVars>>

\* One of the unwrap()/expect() calls before block_on panics: the thread
\* unwinds and GlobalStatesGuard is dropped.
WorkerStartFail(i) ==
  /\ ~procAborted
  /\ wpc[i] = "start"
  /\ wpc' = [wpc EXCEPT ![i] = "guard_inst"]
  /\ UNCHANGED <<instance, unity_state, logInit, procAborted, callerPc,
                 callerCb, callerInst, nextInst>>
  /\ UNCHANGED <<chanVars, loopVars, connVars, logVars>>
  /\ UNCHANGED <<codecVars, discVars>>

\* The task that polls the select! can run: it is not inside the adapter
\* callback and not waiting for a DashMap shard lock. All three loops and
\* the stop_rx.recv() are polled by this one task.
MainRunnable(i) ==
  /\ ~procAborted
  /\ wpc[i] = "running"
  /\ dpc # "in_cb"
  /\ apc # "insert"

\* A loop of the select! can take a step: the task can run and no stop
\* signal is queued. Every poll of the select! polls stop_rx.recv() too, so
\* a queued signal ends the select! in the poll that finds it; the loop
\* steps of that poll commute with stop()'s send and are taken before it.
LoopRunnable(i) == MainRunnable(i) /\ stop_chan[i] = 0

\* The shard is read-locked: route_msg_from_unity_loop keeps the Ref that
\* conns.get returned across msg_tx.send(msg).await.
ShardHeld(s) == rpc = "sending" /\ shardOf[routeMsg.to] = s

\* The async block passed to block_on is dropped (select! completed or the
\* task panicked): the listener, the three loops, the Ref, stop_rx,
\* unity_msg_rx and cmd_rx go with it.
FutureDropped(i) ==
  /\ wpc' = [wpc EXCEPT ![i] = "rt_drop"]
  /\ listener' = listener \ {i}
  /\ apc' = "done"
  /\ rpc' = "done"
  /\ dpc' = "done"
  /\ routeMsg' = NoMsg
  /\ cmd_chan' = <<>>
  /\ cmd_rx' = FALSE
  /\ stop_chan' = [stop_chan EXCEPT ![i] = 0]
  /\ stop_rx' = [stop_rx EXCEPT ![i] = FALSE]
  /\ unity_msg_chan' = [unity_msg_chan EXCEPT ![i] = <<>>]
  /\ unity_msg_rx' = [unity_msg_rx EXCEPT ![i] = FALSE]

\* accept_conn_loop, Ok arm: mint the uuid (it hashes to shard s), insert
\* msg_tx into the DashMap and spawn the two pumps. The insert takes the
\* shard's write lock: when the shard is read-locked the task blocks there.
Accept(i, s) ==
  /\ LoopRunnable(i)
  /\ apc = "accept"
  /\ nextConn <= MaxConn
  /\ nextConn < UuidHalf * UuidHalf
  /\ shardOf' = [shardOf EXCEPT ![nextConn] = s]
  /\ IF ShardHeld(s)
       THEN /\ apc' = "insert"
            /\ UNCHANGED <<conns, nextConn, msg_rx, wp, rp>>
       ELSE /\ conns' = conns \cup {nextConn}
            /\ msg_rx' = [msg_rx EXCEPT ![nextConn] = TRUE]
            /\ wp' = [wp EXCEPT ![nextConn] = "recv"]
            /\ rp' = [rp EXCEPT ![nextConn] = "read"]
            /\ nextConn' = nextConn + 1
            /\ UNCHANGED apc
  /\ UNCHANGED <<listener, acceptErrs, rpc, routeMsg, dpc, cmd_chan, cmd_rx>>
  /\ UNCHANGED <<msg_chan, wmsg, rcmd, inSock, clientClosed, sockOut>>
  /\ UNCHANGED <<lifeVars, chanVars, logVars>>
  /\ UNCHANGED <<codecVars, discVars>>

AcceptErrArmBreak(pc) == "done"
\* Err(_e) => {}: the position of accept_conn_loop after the arm, back at
\* listener.accept().
AcceptErrArm(pc) == pc

\* accept_conn_loop, Err arm: nothing, the loop goes on.
AcceptError(i) ==
  /\ LoopRunnable(i)
  /\ apc = "accept"
  /\ acceptErrs < MaxAcceptErr
  /\ acceptErrs' = acceptErrs + 1
  /\ apc' = AcceptErrArm(apc)
  /\ UNCHANGED <<listener, conns, shardOf, nextConn, rpc, routeMsg, dpc,
                 cmd_chan, cmd_rx>>
  /\ UNCHANGED <<lifeVars, chanVars, connVars, logVars>>
  /\ UNCHANGED <<codecVars, discVars>>

RegistryGetAny(reg, uuid) == IF reg = {} THEN 0 ELSE CHOOSE u \in reg : TRUE
\* conns.get(&uuid): the connection whose msg_tx the lookup returns, 0 on a
\* miss.
RegistryGet(reg, uuid) == IF uuid \in reg THEN uuid ELSE 0

\* route_msg_from_unity_loop, one unity_msg_rx.recv(): look the uuid up; on a
\* hit send on msg_tx (break when the receiver is gone, wait when the
\* channel is full, keeping the Ref); on a miss drop the message.
RouteRecv(i) ==
  /\ LoopRunnable(i)
  /\ rpc = "recv"
  /\ unity_msg_chan[i] # <<>>
  /\ LET e == Head(unity_msg_chan[i])
         u == RegistryGet(conns, e.to)
     IN /\ unity_msg_chan' = [unity_msg_chan EXCEPT ![i] = Tail(@)]
        /\ IF u # 0
             THEN IF ~msg_rx[u]
               THEN /\ rpc' = "done"
                    /\ UNCHANGED <<msg_chan, routeMsg, dropped>>
               ELSE IF Len(msg_chan[u]) < MsgChanCap
                 THEN /\ msg_chan' = [msg_chan EXCEPT ![u] = Append(@, e)]
                      /\ UNCHANGED <<rpc, routeMsg, dropped>>
                 ELSE /\ rpc' = "sending"
                      /\ routeMsg' = [e EXCEPT !.to = u]
                      /\ UNCHANGED <<msg_chan, dropped>>
             ELSE /\ dropped' = dropped \cup {e.n}
                  /\ UNCHANGED <<rpc, routeMsg, msg_chan>>
  /\ UNCHANGED <<listener, conns, shardOf, nextConn, acceptErrs, apc, dpc,
                 cmd_chan, cmd_rx>>
  /\ UNCHANGED <<msg_rx, wp, wmsg, rp, rcmd, inSock, clientClosed, sockOut>>
  /\ UNCHANGED <<lifeVars, stop_chan, stop_rx, unity_msg_rx>>
  /\ UNCHANGED <<calls, decoded, taken, nEvents, nCmds>>
  /\ UNCHANGED <<codecVars, discVars>>

\* route_msg_from_unity_loop, the pending msg_tx.send(msg) completes: the
\* write pump freed a slot, or the receiver is gone (break).
RouteSendComplete(i) ==
  /\ LoopRunnable(i)
  /\ rpc = "sending"
  /\ LET u == routeMsg.to
     IN /\ \/ ~msg_rx[u]
           \/ Len(msg_chan[u]) < MsgChanCap
        /\ IF msg_rx[u]
             THEN /\ msg_chan' = [msg_chan EXCEPT ![u] = Append(@, routeMsg)]
                  /\ rpc' = "recv"
             ELSE /\ rpc' = "done"
                  /\ UNCHANGED msg_chan
  /\ routeMsg' = NoMsg
  /\ UNCHANGED <<listener, conns, shardOf, nextConn, acceptErrs, apc, dpc,
                 cmd_chan, cmd_rx>>
  /\ UNCHANGED <<msg_rx, wp, wmsg, rp, rcmd, inSock, clientClosed, sockOut>>
  /\ UNCHANGED <<lifeVars, chanVars, logVars>>
  /\ UNCHANGED <<codecVars, discVars>>

CallbackRegisteredAlways(st) == TRUE
\* if let Some(unity_state) = unity_state().read().await.as_ref().
CallbackRegistered(st) == st # 0

\* send_cmd_to_unity_loop, one cmd_rx.recv(): without a registered callback
\* the command is dropped; else the strings become CStrings (a NUL byte
\* panics the task) and the callback is invoked with the id's two halves.
DispatchRecv(i) ==
  /\ LoopRunnable(i)
  /\ dpc = "recv"
  /\ cmd_chan # <<>>
  /\ LET c == Head(cmd_chan)
     IN IF ~CallbackRegistered(unity_state)
          THEN /\ cmd_chan' = Tail(cmd_chan)
               /\ UNCHANGED <<lifeVars, chanVars, listener, apc, rpc, routeMsg,
                              dpc, cmd_rx, calls, taken>>
          ELSE /\ taken' = taken \cup {c}
               /\ IF CStringPanics(c)
                    THEN /\ FutureDropped(i)
                         /\ UNCHANGED <<instance, unity_state, logInit,
                                        procAborted, callerPc, callerCb,
                                        callerInst, nextInst, calls>>
                    ELSE /\ cmd_chan' = Tail(cmd_chan)
                         /\ dpc' = "in_cb"
                         /\ calls' = Append(calls,
                              [cb |-> unity_state, hi |-> AsU64Pair(c.uuid)[1],
                               lo |-> AsU64Pair(c.uuid)[2], cmd |-> c.cmd,
                               args |-> c.args, n |-> c.n])
                         /\ UNCHANGED <<lifeVars, chanVars, listener, apc, rpc,
                                        routeMsg, cmd_rx>>
  /\ UNCHANGED <<conns, shardOf, nextConn, acceptErrs>>
  /\ UNCHANGED <<connVars, decoded, dropped, nEvents, nCmds>>
  /\ UNCHANGED <<codecVars, discVars>>

\* The adapter's command callback returns; the CStrings are freed.
CallbackReturn(i) ==
  /\ ~procAborted
  /\ wpc[i] = "running"
  /\ dpc = "in_cb"
  /\ dpc' = "recv"
  /\ UNCHANGED <<listener, conns, shardOf, nextConn, acceptErrs, apc, rpc,
                 routeMsg, cmd_chan, cmd_rx>>
  /\ UNCHANGED <<lifeVars, chanVars, connVars, logVars>>
  /\ UNCHANGED <<codecVars, discVars>>

\* select! completes: stop_rx.recv() yields the (), or one of the loops
\* has ended. block_on returns and drops the async block.
RouterExit(i) ==
  /\ MainRunnable(i)
  /\ \/ stop_chan[i] > 0
     \/ rpc = "done"
  /\ FutureDropped(i)
  /\ UNCHANGED <<instance, unity_state, logInit, procAborted, callerPc,
                 callerCb, callerInst, nextInst>>
  /\ UNCHANGED <<conns, shardOf, nextConn, acceptErrs>>
  /\ UNCHANGED <<connVars, logVars>>
  /\ UNCHANGED <<codecVars, discVars>>

\* ------------------------------------------------ per-connection pumps
\* Spawned tasks are polled while the runtime lives: until rt is dropped.
RuntimeLive == ~procAborted /\ \E i \in Inst : wpc[i] \in {"running", "rt_drop"}

DeserializesAlways(p) == TRUE
\* The decoder yields Some(Ok(ClientMessage::CommandRequest { .. })) for
\* the frame's payload, not Some(Err(e)).
Deserializes(p) == p # BadFrame

ReadNextNewest(buf) == <<buf[Len(buf)], SubSeq(buf, 1, Len(buf) - 1)>>
\* read.next() on a stream that holds at least one whole frame: the oldest
\* frame, and what stays buffered.
ReadNext(buf) == <<Head(buf), Tail(buf)>>

\* cmd_tx.send((uuid, cmd, args)) of handle_read: the resulting position of
\* the pump and channel, given the command c.
ReadSend(u, c) ==
  IF ~cmd_rx
    THEN /\ rp' = [rp EXCEPT ![u] = "done"]
         /\ rcmd' = [rcmd EXCEPT ![u] = NoCmd]
         /\ UNCHANGED cmd_chan
    ELSE IF Len(cmd_chan) < CmdChanCap
      THEN /\ cmd_chan' = Append(cmd_chan, c)
           /\ rp' = [rp EXCEPT ![u] = "read"]
           /\ rcmd' = [rcmd EXCEPT ![u] = NoCmd]
      ELSE /\ rp' = [rp EXCEPT ![u] = "send"]
           /\ rcmd' = [rcmd EXCEPT ![u] = c]
           /\ UNCHANGED cmd_chan

\* handle_read, one read.next(): a CommandRequest is sent on cmd_tx tagged
\* with the pump's uuid; a frame that does not deserialize, or the closed
\* stream, ends the pump.
ReadFrame(u) ==
  /\ RuntimeLive
  /\ rp[u] = "read"
  /\ inSock[u] # <<>> \/ clientClosed[u]
  /\ IF inSock[u] = <<>>
       THEN /\ rp' = [rp EXCEPT ![u] = "done"]
            /\ UNCHANGED <<inSock, rcmd, cmd_chan, decoded>>
       ELSE LET f == ReadNext(inSock[u])[1]
                c == [uuid |-> u, n |-> f.n, cmd |-> f.p.cmd, args |-> f.p.args]
            IN /\ inSock' = [inSock EXCEPT ![u] = ReadNext(@)[2]]
               /\ IF ~Deserializes(f.p)
                    THEN /\ rp' = [rp EXCEPT ![u] = "done"]
                         /\ UNCHANGED <<rcmd, cmd_chan, decoded>>
                    ELSE /\ decoded' = decoded \cup {c}
                         /\ ReadSend(u, c)
  /\ UNCHANGED <<listener, conns, shardOf, nextConn, acceptErrs, apc, rpc,
                 routeMsg, dpc, cmd_rx>>
  /\ UNCHANGED <<msg_chan, msg_rx, wp, wmsg, clientClosed, sockOut>>
  /\ UNCHANGED <<lifeVars, chanVars, calls, taken, dropped, nEvents, nCmds>>
  /\ UNCHANGED <<codecVars, discVars>>

\* handle_read, the pending cmd_tx.send completes: the channel has room, or
\* cmd_rx is gone (break).
ReadSendComplete(u) ==
  /\ RuntimeLive
  /\ rp[u] = "send"
  /\ ~cmd_rx \/ Len(cmd_chan) < CmdChanCap
  /\ ReadSend(u, rcmd[u])
  /\ UNCHANGED <<listener, conns, shardOf, nextConn, acceptErrs, apc, rpc,
                 routeMsg, dpc, cmd_rx>>
  /\ UNCHANGED <<msg_chan, msg_rx, wp, wmsg, inSock, clientClosed, sockOut>>
  /\ UNCHANGED <<lifeVars, chanVars, logVars>>
  /\ UNCHANGED <<codecVars, discVars>>

\* handle_write, one cmd_rx.recv(): take the next message, or leave the loop
\* when the channel is closed (its only sender lives in the DashMap entry).
WriteRecv(u) ==
  /\ RuntimeLive
  /\ wp[u] = "recv"
  /\ msg_chan[u] # <<>> \/ u \notin conns
  /\ IF msg_chan[u] # <<>>
       THEN /\ wmsg' = [wmsg EXCEPT ![u] = Head(msg_chan[u])]
            /\ msg_chan' = [msg_chan EXCEPT ![u] = Tail(@)]
            /\ wp' = [wp EXCEPT ![u] = "writing"]
       ELSE /\ wp' = [wp EXCEPT ![u] = "release"]
            /\ UNCHANGED <<wmsg, msg_chan>>
  /\ UNCHANGED <<msg_rx, rp, rcmd, inSock, clientClosed, sockOut>>
  /\ UNCHANGED <<lifeVars, chanVars, loopVars, logVars>>
  /\ UNCHANGED <<codecVars, discVars>>

\* handle_write, write.send(msg) succeeds: the frame is on the socket.
WriteOk(u) ==
  /\ RuntimeLive
  /\ wp[u] = "writing"
  /\ sockOut' = [sockOut EXCEPT ![u] = Append(@, wmsg[u])]
  /\ wmsg' = [wmsg EXCEPT ![u] = NoMsg]
  /\ wp' = [wp EXCEPT ![u] = "recv"]
  /\ UNCHANGED <<msg_chan, msg_rx, rp, rcmd, inSock, clientClosed>>
  /\ UNCHANGED <<lifeVars, chanVars, loopVars, logVars>>
  /\ UNCHANGED <<codecVars, discVars>>

\* handle_write, write.send(msg) fails (the peer closed the socket): break.
WriteErr(u) ==
  /\ RuntimeLive
  /\ wp[u] = "writing"
  /\ clientClosed[u]
  /\ wmsg' = [wmsg EXCEPT ![u] = NoMsg]
  /\ wp' = [wp EXCEPT ![u] = "release"]
  /\ UNCHANGED <<msg_chan, msg_rx, rp, rcmd, inSock, clientClosed, sockOut>>
  /\ UNCHANGED <<lifeVars, chanVars, loopVars, logVars>>
  /\ UNCHANGED <<codecVars, discVars>>

\* handle_write returns: ReleaseGuard is dropped first (on_finish:
\* conns.remove(&uuid), which takes the shard's write lock), then the
\* parameters msg_rx and write.
WriteRelease(u) ==
  /\ RuntimeLive
  /\ wp[u] = "release"
  /\ ~ShardHeld(shardOf[u])
  /\ conns' = conns \ {u}
  /\ msg_rx' = [msg_rx EXCEPT ![u] = FALSE]
  /\ msg_chan' = [msg_chan EXCEPT ![u] = <<>>]
  /\ wp' = [wp EXCEPT ![u] = "done"]
  /\ UNCHANGED <<listener, shardOf, nextConn, acceptErrs, apc, rpc, routeMsg,
                 dpc, cmd_chan, cmd_rx>>
  /\ UNCHANGED <<wmsg, rp, rcmd, inSock, clientClosed, sockOut>>
  /\ UNCHANGED <<lifeVars, chanVars, logVars>>
  /\ UNCHANGED <<codecVars, discVars>>

\* ----------------------------------------------------------- the clients
\* A connected client writes one frame.
ClientSend(u, p) ==
  /\ RuntimeLive
  /\ u \in Conn
  /\ u < nextConn
  /\ ~clientClosed[u]
  /\ nCmds < MaxCmds
  /\ nCmds' = nCmds + 1
  /\ inSock' = [inSock EXCEPT ![u] = Append(@, [n |-> nCmds + 1, p |-> p])]
  /\ UNCHANGED <<msg_chan, msg_rx, wp, wmsg, rp, rcmd, clientClosed, sockOut>>
  /\ UNCHANGED <<lifeVars, chanVars, loopVars, calls, decoded, taken, dropped, nEvents>>
  /\ UNCHANGED <<codecVars, discVars>>

\* A connected client closes its socket.
ClientClose(u) ==
  /\ RuntimeLive
  /\ u \in Conn
  /\ u < nextConn
  /\ ~clientClosed[u]
  /\ clientClosed' = [clientClosed EXCEPT ![u] = TRUE]
  /\ UNCHANGED <<msg_chan, msg_rx, wp, wmsg, rp, rcmd, inSock, sockOut>>
  /\ UNCHANGED <<lifeVars, chanVars, loopVars, logVars>>
  /\ UNCHANGED <<codecVars, discVars>>

\* ------------------------------------------------------------- teardown
Cancelled(pc) == IF pc \in {"none", "done"} THEN pc ELSE "cancelled"

\* rt is dropped: the runtime shuts down, waiting for its workers; every
\* pump still alive is dropped at its await, which runs its ReleaseGuard.
RuntimeDrop(i) ==
  /\ ~procAborted
  /\ wpc[i] = "rt_drop"
  /\ wpc' = [wpc EXCEPT ![i] = "guard_inst"]
  /\ wp' = [u \in Conn |-> Cancelled(wp[u])]
  /\ rp' = [u \in Conn |-> Cancelled(rp[u])]
  /\ conns' = {}
  /\ msg_rx' = [u \in Conn |-> FALSE]
  /\ msg_chan' = [u \in Conn |-> <<>>]
  /\ wmsg' = [u \in Conn |-> NoMsg]
  /\ rcmd' = [u \in Conn |-> NoCmd]
  /\ UNCHANGED <<instance, unity_state, logInit, procAborted, callerPc,
                 callerCb, callerInst, nextInst>>
  /\ UNCHANGED <<listener, shardOf, nextConn, acceptErrs, apc, rpc, routeMsg,
                 dpc, cmd_chan, cmd_rx>>
  /\ UNCHANGED <<inSock, clientClosed, sockOut>>
  /\ UNCHANGED <<chanVars, logVars>>
  /\ UNCHANGED <<codecVars, discVars>>

GuardDroppedBeforeRuntime(pc) == pc \in {"rt_drop", "guard_inst"}
\* _guard is the first local of the thread closure, so it is dropped last:
\* after block_on has returned and rt has been dropped.
GuardDropped(pc) == pc = "guard_inst"

\* GlobalStatesGuard::drop, first statement: the instance slot is cleared.
GuardDropInstance(i) ==
  /\ ~procAborted
  /\ GuardDropped(wpc[i])
  /\ InstanceLockFree
  /\ instance' = 0
  /\ wpc' = [wpc EXCEPT ![i] = "guard_unity"]
  /\ UNCHANGED <<unity_state, logInit, procAborted, callerPc, callerCb,
                 callerInst, nextInst>>
  /\ UNCHANGED <<chanVars, loopVars, connVars, logVars>>
  /\ UNCHANGED <<codecVars, discVars>>

\* GlobalStatesGuard::drop, second statement: the adapter slot is cleared.
\* The closure then ends and drops what it still owns: stop_rx and
\* unity_msg_rx when the thread panicked before block_on took them.
GuardDropUnity(i) ==
  /\ ~procAborted
  /\ wpc[i] = "guard_unity"
  /\ UnityLockFree
  /\ unity_state' = 0
  /\ wpc' = [wpc EXCEPT ![i] = "done"]
  /\ stop_rx' = [stop_rx EXCEPT ![i] = FALSE]
  /\ unity_msg_rx' = [unity_msg_rx EXCEPT ![i] = FALSE]
  /\ UNCHANGED <<instance, logInit, procAborted, callerPc, callerCb,
                 callerInst, nextInst>>
  /\ UNCHANGED <<stop_chan, unity_msg_chan>>
  /\ UNCHANGED <<loopVars, connVars, logVars>>
  /\ UNCHANGED <<codecVars, discVars>>

\* ------------------------------------------------------------- the codec
Byte == 0..(ByteBase - 1)

\* Number of values of a u32, the type of the length prefix.
U32Mod == ByteBase ^ LenFieldBytes

serverVars == <<lifeVars, chanVars, loopVars, connVars, logVars>>

\* The ClientMessage::CommandRequest { cmd, args } values the peers exchange.
CodecMsgs ==
  { [cmd |-> c, args |-> a] :
      c \in { <<>>, <<1>>, <<2, 3>> },
      a \in { <<>>, << <<1>> >>, << <<>>, <<3, 0>> >> } }

\* The message sequences a writing peer sends.
CodecRuns == UNION { [1..n -> CodecMsgs] : n \in 1..MaxFrames }

\* bincode of a Vec<String>'s elements: each String is its length and its
\* bytes (the length is one byte here, eight in the crate).
RECURSIVE SerializeStrings(_)
SerializeStrings(ss) ==
  IF ss = <<>>
    THEN <<>>
    ELSE <<Len(Head(ss))>> \o Head(ss) \o SerializeStrings(Tail(ss))

\* bincode::serialize of a ClientMessage: the variant index, cmd, the number
\* of args, the args.
Serialize(m) ==
  <<0>> \o <<Len(m.cmd)>> \o m.cmd \o <<Len(m.args)>> \o SerializeStrings(m.args)

DeserializeFailed == [ok |-> FALSE, val |-> <<>>, rest |-> <<>>]

\* bincode reads one String from the front of b.
ReadString(b) ==
  IF b = <<>> \/ Len(b) < 1 + b[1]
    THEN DeserializeFailed
    ELSE [ok |-> TRUE, val |-> SubSeq(b, 2, 1 + b[1]),
          rest |-> SubSeq(b, 2 + b[1], Len(b))]

\* bincode reads n Strings from the front of b.
RECURSIVE ReadStrings(_, _)
ReadStrings(b, n) ==
  IF n = 0
    THEN [ok |-> TRUE, val |-> <<>>, rest |-> b]
    ELSE LET h == ReadString(b)
         IN IF ~h.ok
              THEN DeserializeFailed
              ELSE LET t == ReadStrings(h.rest, n - 1)
                   IN IF ~t.ok
                        THEN DeserializeFailed
                        ELSE [ok |-> TRUE, val |-> <<h.val>> \o t.val,
                              rest |-> t.rest]

\* bincode::deserialize of a payload as a ClientMessage (bytes after the
\* value are ignored): ok and the message, or not ok.
Deserialize(b) ==
  IF b = <<>> \/ b[1] # 0
    THEN DeserializeFailed
    ELSE LET c == ReadString(Tail(b))
         IN IF ~c.ok \/ c.rest = <<>>
              THEN DeserializeFailed
              ELSE LET a == ReadStrings(Tail(c.rest), c.rest[1])
                   IN IF ~a.ok
                        THEN DeserializeFailed
                        ELSE [ok |-> TRUE,
                              val |-> [cmd |-> c.val, args |-> a.val],
                              rest |-> a.rest]

\* (n as u32).to_be_bytes() / put_uint(n, 4): most significant byte first.
ToBeBytes(n) ==
  [k \in 1..LenFieldBytes |-> (n \div (ByteBase ^ (LenFieldBytes - k))) % ByteBase]

\* u32::from_be_bytes / get_uint(4).
RECURSIVE FromBeBytes(_)
FromBeBytes(b) ==
  IF b = <<>>
    THEN 0
    ELSE b[Len(b)] + ByteBase * FromBeBytes(SubSeq(b, 1, Len(b) - 1))

\* bytes.len() as u32.
AsU32(n) == n % U32Mod

\* SyncHeteroCodec::write: the bytes written to dst.
SyncWrite(m) ==
  LET bytes == Serialize(m)
  IN ToBeBytes(AsU32(Len(bytes))) \o bytes

\* AsyncHeteroCodec::encode returns Err: LengthDelimitedCodec refuses a
\* payload longer than max_frame_length.
AsyncEncodeFails(m) == Len(Serialize(m)) > MaxFrameLen

\* AsyncHeteroCodec::encode: the bytes appended to dst when it returns Ok.
AsyncEncode(m) ==
  LET bytes == Serialize(m)
  IN ToBeBytes(Len(bytes)) \o bytes

\* AsyncHeteroCodec::decode, one call on the buffer src in state st (-1:
\* Head, n: Data(n)): the result, the buffer and the state after the call.
AsyncDecode(src, st) ==
  LET headRead == st = -1 /\ Len(src) >= LenFieldBytes
      n == IF st = -1 THEN FromBeBytes(SubSeq(src, 1, LenFieldBytes)) ELSE st
      data == IF st = -1 THEN SubSeq(src, LenFieldBytes + 1, Len(src)) ELSE src
  IN IF st = -1 /\ ~headRead
       THEN [res |-> "none", val |-> <<>>, src |-> src, st |-> st]
       ELSE IF st = -1 /\ n > MaxFrameLen
         THEN [res |-> "err", val |-> <<>>, src |-> src, st |-> st]
         ELSE IF Len(data) < n
           THEN [res |-> "none", val |-> <<>>, src |-> data, st |-> n]
           ELSE LET d == Deserialize(SubSeq(data, 1, n))
                IN [res |-> IF d.ok THEN "some" ELSE "err", val |-> d.val,
                    src |-> SubSeq(data, n + 1, Len(data)), st |-> -1]

\* SyncHeteroCodec::read on a stream whose next frame has arrived whole.
SyncRead(src) ==
  LET n == FromBeBytes(SubSeq(src, 1, LenFieldBytes))
      d == Deserialize(SubSeq(src, LenFieldBytes + 1, LenFieldBytes + n))
  IN [res |-> IF d.ok THEN "some" ELSE "err", val |-> d.val,
      src |-> SubSeq(src, LenFieldBytes + n + 1, Len(src))]

\* The two read_exact calls of SyncHeteroCodec::read can return: the prefix
\* and the payload it announces have arrived.
SyncReadReady(src) ==
  /\ Len(src) >= LenFieldBytes
  /\ Len(src) >= LenFieldBytes + FromBeBytes(SubSeq(src, 1, LenFieldBytes))

\* The writing peer, blocking form, writes its next message.
SyncWriteStep ==
  /\ cEnc = "sync"
  /\ cErr = "none"
  /\ cSent < Len(cMsgs)
  /\ cWire' = cWire \o SyncWrite(cMsgs[cSent + 1])
  /\ cSent' = cSent + 1
  /\ UNCHANGED <<cMsgs, cEnc, cDec, cSrc, cState, cOut, cLast, cErr>>
  /\ UNCHANGED <<serverVars, discVars>>

\* The writing peer, stream form, encodes its next message.
AsyncEncodeStep ==
  /\ cEnc = "async"
  /\ cErr = "none"
  /\ cSent < Len(cMsgs)
  /\ cSent' = cSent + 1
  /\ IF AsyncEncodeFails(cMsgs[cSent + 1])
       THEN cErr' = "encode" /\ UNCHANGED cWire
       ELSE cWire' = cWire \o AsyncEncode(cMsgs[cSent + 1]) /\ UNCHANGED cErr
  /\ UNCHANGED <<cMsgs, cEnc, cDec, cSrc, cState, cOut, cLast>>
  /\ UNCHANGED <<serverVars, discVars>>

\* The next k bytes written arrive at the reading peer: one chunk.
Arrive(k) ==
  /\ k \in 1..Len(cWire)
  /\ cSrc' = cSrc \o SubSeq(cWire, 1, k)
  /\ cWire' = SubSeq(cWire, k + 1, Len(cWire))
  /\ UNCHANGED <<cMsgs, cEnc, cDec, cSent, cState, cOut, cLast, cErr>>
  /\ UNCHANGED <<serverVars, discVars>>

\* The reading peer, stream form: one call of decode.
AsyncDecodeStep ==
  /\ cDec = "async"
  /\ cErr = "none"
  /\ LET r == AsyncDecode(cSrc, cState)
     IN /\ cSrc' = r.src
        /\ cState' = r.st
        /\ cLast' = r.res
        /\ cOut' = IF r.res = "some" THEN Append(cOut, r.val) ELSE cOut
        /\ cErr' = IF r.res = "err" THEN "decode" ELSE cErr
  /\ UNCHANGED <<cMsgs, cEnc, cDec, cSent, cWire>>
  /\ UNCHANGED <<serverVars, discVars>>

\* The reading peer, blocking form: one call of read.
SyncReadStep ==
  /\ cDec = "sync"
  /\ cErr = "none"
  /\ SyncReadReady(cSrc)
  /\ LET r == SyncRead(cSrc)
     IN /\ cSrc' = r.src
        /\ cLast' = r.res
        /\ cOut' = IF r.res = "some" THEN Append(cOut, r.val) ELSE cOut
        /\ cErr' = IF r.res = "err" THEN "decode" ELSE cErr
  /\ UNCHANGED <<cMsgs, cEnc, cDec, cSent, cWire, cState>>
  /\ UNCHANGED <<serverVars, discVars>>

\* Two peers, each with one of the two codec forms, and the messages the
\* writing one sends.
CodecInit ==
  /\ ServerInit
  /\ DiscoveryOff
  /\ cMsgs \in CodecRuns
  /\ cEnc \in {"sync", "async"}
  /\ cDec \in {"sync", "async"}
  /\ cSent = 0
  /\ cWire = <<>>
  /\ cSrc = <<>>
  /\ cState = -1
  /\ cOut = <<>>
  /\ cLast = "none"
  /\ cErr = "none"

CodecNext ==
  \/ SyncWriteStep
  \/ AsyncEncodeStep
  \/ \E k \in 1..(MaxFrames * (LenFieldBytes + U32Mod)) : Arrive(k)
  \/ AsyncDecodeStep
  \/ SyncReadStep

\* The codec alone: a writing and a reading peer.
SpecCodec == CodecInit /\ [][CodecNext]_vars

\* ------------------------------------------------------ client discovery
\* Characters of names: two letters, the dot that ends an mDNS label, and
\* one token standing for the whole service type "_unity-cli._tcp.local.".
Dot == 3
MDNS_SERVICE_NAME == 4

\* Paths on the client's disk: 1 and 2 are directories, 3 is a symbolic link
\* to 1, 4 does not exist.
Paths == 1..4

\* std::fs::canonicalize: the resolved path, or NoPath for Err.
Canonicalize(p) ==
  CASE p = 1 -> 1
    [] p = 2 -> 2
    [] p = 3 -> 1
    [] OTHER -> NoPath

\* str::starts_with.
StartsWith(s, prefix) ==
  /\ Len(prefix) <= Len(s)
  /\ SubSeq(s, 1, Len(prefix)) = prefix

\* info.get_fullname().replace(MDNS_SERVICE_NAME, "").
SessionName(fullname) ==
  LET Kept(c) == c # MDNS_SERVICE_NAME IN SelectSeq(fullname, Kept)

\* The Service built from a resolved ServiceInfo.
ServiceOf(info) ==
  [addr |-> info.addr, props |-> info.props, path |-> info.path,
   project |-> info.project, session |-> SessionName(info.fullname)]

\* What filter_service returns: None, or Some((exact, service)).
FilterNone == [some |-> FALSE, exact |-> FALSE, service |-> NoService]
FilterSome(exact, service) == [some |-> TRUE, exact |-> exact, service |-> service]

\* The arm of filter_service that decides when --path is given and both
\* paths canonicalize.
PathArm(args, service) ==
  /\ args.path # NoPath
  /\ Canonicalize(args.path) # NoPath
  /\ Canonicalize(service.path) # NoPath

filter_service(info, args, workdir) ==
  LET service == ServiceOf(info)
  IN IF ~info.addr THEN FilterNone
     ELSE IF ~info.props THEN FilterNone
     ELSE IF PathArm(args, service)
       THEN IF Canonicalize(args.path) = Canonicalize(service.path)
              THEN FilterSome(TRUE, service)
              ELSE FilterNone
     ELSE IF args.project # NoName
       THEN IF ~StartsWith(service.project, args.project)
              THEN FilterNone
              ELSE FilterSome(service.project = args.project, service)
     ELSE IF args.session # NoName
       THEN IF ~StartsWith(service.session, args.session)
              THEN FilterNone
              ELSE FilterSome(service.session = args.session, service)
     ELSE IF /\ args.path = NoPath /\ args.project = NoName /\ args.session = NoName
             /\ Canonicalize(workdir) # NoPath
             /\ Canonicalize(service.path) # NoPath
       THEN IF Canonicalize(workdir) = Canonicalize(service.path)
              THEN FilterSome(TRUE, service)
              ELSE FilterNone
     ELSE FilterSome(FALSE, service)

\* The command lines and working directories tried.
ArgPaths == {NoPath, 1, 3, 4}
ArgProjects == {NoName, <<1>>, <<1, 2>>}
ArgSessions == {NoName, <<1>>, <<1, Dot>>}
Workdirs == {1, 2}

\* The ServiceInfo records the browse can resolve: complete ones, one with
\* no address yet and one with no properties.
CompleteInfos ==
  [addr : {TRUE}, props : {TRUE}, path : {1, 2, 4},
   project : {<<1>>, <<1, 2>>, <<2>>},
   fullname : {<<1, Dot, MDNS_SERVICE_NAME>>, <<2, Dot, MDNS_SERVICE_NAME>>}]

Infos ==
  CompleteInfos \cup
    {[addr |-> FALSE, props |-> TRUE, path |-> 1, project |-> <<1>>,
      fullname |-> <<1, Dot, MDNS_SERVICE_NAME>>],
     [addr |-> TRUE, props |-> FALSE, path |-> 1, project |-> <<1>>,
      fullname |-> <<1, Dot, MDNS_SERVICE_NAME>>]}

\* discover_service is called: the daemon starts and the browse begins.
DiscoverBegin ==
  /\ dPc = "called"
  /\ dPc' = "browsing"
  /\ UNCHANGED <<dArgs, dWorkdir, dServices, dResolved, dDeadline, dResult>>
  /\ UNCHANGED <<serverVars, codecVars>>

\* ServiceDaemon::new or browse returns Err and the unwrap panics.
DiscoverBeginPanic ==
  /\ dPc = "called"
  /\ dPc' = "panicked"
  /\ UNCHANGED <<dArgs, dWorkdir, dServices, dResolved, dDeadline, dResult>>
  /\ UNCHANGED <<serverVars, codecVars>>

\* recv_deadline yields a ServiceResolved event before the deadline.
Resolved(info) ==
  /\ dPc = "browsing"
  /\ dResolved < MaxResolved
  /\ dResolved' = dResolved + 1
  /\ LET r == filter_service(info, dArgs, dWorkdir)
     IN IF r.some /\ r.exact
          THEN /\ dPc' = "returned"
               /\ dResult' = r.service
               /\ UNCHANGED dServices
          ELSE /\ dServices' = IF r.some THEN Append(dServices, r.service)
                                         ELSE dServices
               /\ UNCHANGED <<dPc, dResult>>
  /\ UNCHANGED <<dArgs, dWorkdir, dDeadline>>
  /\ UNCHANGED <<serverVars, codecVars>>

\* recv_deadline returns Err: the deadline passed; match services.len().
Deadline ==
  /\ dPc = "browsing"
  /\ dDeadline' = TRUE
  /\ IF Len(dServices) = 1
       THEN /\ dPc' = "returned"
            /\ dResult' = dServices[1]
            /\ dServices' = Tail(dServices)
       ELSE /\ dPc' = "panicked"
            /\ UNCHANGED <<dResult, dServices>>
  /\ UNCHANGED <<dArgs, dWorkdir, dResolved>>
  /\ UNCHANGED <<serverVars, codecVars>>

DiscoveryInit ==
  /\ ServerInit
  /\ CodecIdle
  /\ dArgs \in [path : ArgPaths, project : ArgProjects, session : ArgSessions]
  /\ dWorkdir \in Workdirs
  /\ dPc = "called"
  /\ dServices = <<>>
  /\ dResolved = 0
  /\ dDeadline = FALSE
  /\ dResult = NoService

DiscoveryNext ==
  \/ DiscoverBegin
  \/ DiscoverBeginPanic
  \/ \E info \in Infos : Resolved(info)
  \/ Deadline

\* The client's discovery alone.
SpecDiscovery == DiscoveryInit /\ [][DiscoveryNext]_vars

\* ------------------------------------------------------- specifications
CallerNext ==
  \/ \E cb \in Callbacks : RunBegin(cb)
  \/ RunCheck
  \/ RunInitOk
  \/ RunInitPanicAbort
  \/ RunInitPanicUnwind
  \/ Stop
  \/ StopSendComplete
  \/ Unload

WorkerNext ==
  \/ \E i \in Inst : WorkerStart(i)
  \/ \E i \in Inst : WorkerStartFail(i)
  \/ \E i \in Inst : RuntimeDrop(i)
  \/ \E i \in Inst : GuardDropInstance(i)
  \/ \E i \in Inst : GuardDropUnity(i)

AcceptNext ==
  \/ \E i \in Inst, s \in Shard : Accept(i, s)
  \/ \E i \in Inst : AcceptError(i)
  \/ \E i \in Inst : RouterExit(i)

\* The event path: adapter -> route_msg_from_unity_loop -> write pump.
EventNext ==
  \/ \E t \in EventTargets : EmitEvent(AsU64Pair(t)[1], AsU64Pair(t)[2])
  \/ \E i \in Inst : RouteRecv(i)
  \/ \E i \in Inst : RouteSendComplete(i)
  \/ \E u \in Conn : WriteRecv(u)
  \/ \E u \in Conn : WriteOk(u)
  \/ \E u \in Conn : WriteErr(u)
  \/ \E u \in Conn : WriteRelease(u)

\* The command path: client -> read pump -> send_cmd_to_unity_loop -> adapter.
CommandNext ==
  \/ \E u \in Conn, p \in Frames : ClientSend(u, p)
  \/ \E u \in Conn : ReadSendComplete(u)
  \/ \E i \in Inst : DispatchRecv(i)
  \/ \E i \in Inst : CallbackReturn(i)

CloseNext ==
  \/ \E u \in Conn : ClientClose(u)
  \/ \E u \in Conn : ReadFrame(u)

\* Every step that needs no new input (no call of the embedding caller, no
\* new event, no client connecting, writing or closing): the worker thread,
\* the loops, the pumps, the adapter returning from the callback and a
\* blocked stop() completing.
SystemNext ==
  \/ WorkerNext
  \/ \E i \in Inst : RouterExit(i)
  \/ \E i \in Inst : RouteRecv(i)
  \/ \E i \in Inst : RouteSendComplete(i)
  \/ \E i \in Inst : DispatchRecv(i)
  \/ \E i \in Inst : CallbackReturn(i)
  \/ \E u \in Conn : ReadFrame(u) \/ ReadSendComplete(u)
  \/ \E u \in Conn : WriteRecv(u) \/ WriteOk(u) \/ WriteErr(u) \/ WriteRelease(u)
  \/ StopSendComplete

Next == CallerNext \/ WorkerNext \/ AcceptNext \/ EventNext \/ CommandNext \/ CloseNext

\* The whole system.
Spec == Init /\ [][Next]_vars

\* The system while the clients write no frame.
EventsSpecNext == CallerNext \/ WorkerNext \/ AcceptNext \/ EventNext \/ CloseNext
SpecEvents == Init /\ [][EventsSpecNext]_vars

\* The system while the adapter emits no event.
CommandsSpecNext == CallerNext \/ WorkerNext \/ AcceptNext \/ CommandNext \/ CloseNext
SpecCommands == Init /\ [][CommandsSpecNext]_vars

\* One instance that is started and never stopped, while the adapter emits
\* a burst of events and the clients write no frame.
DeliverySpecNext ==
  \/ \E cb \in Callbacks : RunBegin(cb)
  \/ RunCheck
  \/ RunInitOk
  \/ \E i \in Inst : WorkerStart(i)
  \/ \E i \in Inst, s \in Shard : Accept(i, s)
  \/ \E t \in EventTargets : EmitBurst(AsU64Pair(t)[1], AsU64Pair(t)[2])
  \/ \E i \in Inst : RouteRecv(i)
  \/ \E i \in Inst : RouteSendComplete(i)
  \/ \E u \in Conn : WriteRecv(u)
  \/ \E u \in Conn : WriteOk(u)
  \/ \E u \in Conn : WriteErr(u)
  \/ \E u \in Conn : WriteRelease(u)
  \/ CloseNext
SpecDelivery == Init /\ [][DeliverySpecNext]_vars

\* ----------------------------------------------------------------- claims
Ended == {"none", "done"}
Stopped == {"none", "done", "cancelled"}

\* C1: an event the adapter tagged with the two halves of connection A's id
\* is only ever enqueued on A's channel, held by A's write pump and written
\* to A's socket; it never reaches another connection.
C1_EventIsolation ==
  \A u \in Conn :
    /\ \A k \in DOMAIN sockOut[u] : sockOut[u][k].tag = AsU64Pair(u)
    /\ \A k \in DOMAIN msg_chan[u] : msg_chan[u][k].tag = AsU64Pair(u)
    /\ wmsg[u] # NoMsg => wmsg[u].tag = AsU64Pair(u)
    /\ (rpc = "sending" /\ routeMsg.to = u) => routeMsg.tag = AsU64Pair(u)

\* Two connections are registered at once and each got an event on its socket.
C1_Witness ==
  /\ conns = {1, 2}
  /\ sockOut[1] # <<>>
  /\ sockOut[2] # <<>>

\* The callback invocation call carries command c: its serial, the halves
\* of its connection's id, its name and its arguments.
Matches(call, c) ==
  /\ call.n = c.n
  /\ <<call.hi, call.lo>> = AsU64Pair(c.uuid)
  /\ call.cmd = c.cmd
  /\ call.args = c.args

\* C2: every CommandRequest the dispatch loop receives while a callback is
\* registered has exactly one callback invocation, carrying its connection's
\* id, name and arguments, and every invocation is of a command decoded on
\* that connection.
C2_ExactlyOneDispatch ==
  /\ \A c \in taken :
       Cardinality({k \in DOMAIN calls : Matches(calls[k], c)}) = 1
  /\ \A k \in DOMAIN calls : \E c \in decoded : Matches(calls[k], c)

\* The step is the run() call's first statement, taken while the slot is
\* occupied.
RunBeginWhileActive ==
  callerPc = "idle" /\ callerPc' = "run_check" /\ instance # 0

\* The step is the run() call's check of the slot, finding it occupied.
RunCheckWhileActive ==
  callerPc = "run_check" /\ callerPc' # "run_check" /\ instance # 0

C4_StopLeadsToTeardown ==
  \A i \in Inst :
    (stop_chan[i] > 0 /\ instance = i /\ wpc[i] = "running") =>
      ENABLED SystemNext

\* C5: no stop() call blocks forever: while a call is blocked in
\* blocking_send, the server has a step to take.
C5_StopReturns ==
  callerPc = "stop_send" => ENABLED SystemNext

\* C6: at most one instance exists: one listening socket, one worker whose
\* Router has not been dropped, and as long as a worker has not cleared the
\* slot, the slot holds that worker's instance and no other.
C6_AtMostOneInstance ==
  /\ Cardinality(listener) <= 1
  /\ Cardinality({i \in Inst : wpc[i] \in {"start", "running", "rt_drop"}}) <= 1
  /\ \A i \in Inst :
       wpc[i] \in {"start", "running", "rt_drop", "guard_inst"} => instance = i

\* A run() call arrives while instance 1 is tearing down: the slot is
\* cleared, the adapter slot is not yet.
C6_Witness ==
  /\ callerPc = "run_check"
  /\ wpc[1] = "guard_unity"
  /\ instance = 0

\* C7: whenever is_running() is false after an instance was installed, the
\* listening socket is released, the three loops have ended and no pump is
\* executing: the slot is cleared last.
C7_TeardownOrder ==
  (instance = 0 /\ nextInst > 1) =>
    /\ listener = {}
    /\ apc \in Ended /\ rpc \in Ended /\ dpc \in Ended
    /\ \A u \in Conn : wp[u] \in Stopped /\ rp[u] \in Stopped

\* Instance 1 was stopped while a connection's pumps were running and its
\* teardown has cleared the slot.
C7_Witness ==
  /\ instance = 0
  /\ wpc[1] \in {"guard_unity", "done"}
  /\ \E u \in Conn : wp[u] = "cancelled" /\ rp[u] = "cancelled"

\* C8: when a connection's read pump has terminated, its id is removed from
\* the Registry without any further event: as long as the id is still
\* registered, the server has a step to take.
C8_CleanupOnDisconnect ==
  \A u \in Conn : (rp[u] = "done" /\ u \in conns) => ENABLED SystemNext

\* The step is route_msg_from_unity_loop taking an event whose id has no
\* Registry entry.
RouteMissStep(i) ==
  /\ wpc[i] = "running" /\ wpc'[i] = "running"
  /\ rpc = "recv"
  /\ unity_msg_chan[i] # <<>>
  /\ unity_msg_chan'[i] = Tail(unity_msg_chan[i])
  /\ Head(unity_msg_chan[i]).to \notin conns

\* C9: an event addressed to an id without a Registry entry is dropped:
\* nothing is enqueued or written for any connection, the loop goes on
\* receiving and the instance keeps running.
C9_MissDropped ==
  [][\A i \in Inst : RouteMissStep(i) =>
       /\ UNCHANGED <<msg_chan, wmsg, sockOut, conns, instance, listener>>
       /\ rpc' = "recv"]_vars

\* An event was dropped on a miss and an event emitted after it was written
\* to a live connection's socket.
C9_Witness ==
  \E n \in dropped : \E u \in Conn : \E k \in DOMAIN sockOut[u] :
    sockOut[u][k].n > n

\* Every Registry entry's channel still has its receiver: the send error
\* branch of route_msg_from_unity_loop is never taken.
RegistryReceiversAlive == \A u \in conns : msg_rx[u]

\* The write pump of u is in its loop: receiving from its channel or writing
\* the message it received.
PumpReceiving(u) == wp[u] \in {"recv", "writing"}

\* The write pump of u has left its loop and its Registry removal cannot
\* happen: the event-delivery loop waits to enqueue on u's full channel,
\* holding the lookup result.
ReleaseStuck(u) ==
  /\ wp[u] = "release"
  /\ rpc = "sending"
  /\ routeMsg.to = u
  /\ Len(msg_chan[u]) = MsgChanCap

\* C11: the Registry has an entry for a connection exactly when that
\* connection's write pump is alive and receiving from its channel; a pump
\* that has left its loop removes its entry (the moment between the two is
\* allowed as long as the removal can go ahead).
C11_RegistryIffPumpReceiving ==
  \A u \in Conn :
    /\ PumpReceiving(u) => u \in conns
    /\ u \in conns => \/ PumpReceiving(u)
                      \/ wp[u] = "release" /\ ~ReleaseStuck(u)

C13_OutboundOrder ==
  \A u \in Conn : \A j, k \in DOMAIN sockOut[u] :
    j < k => sockOut[u][j].n < sockOut[u][k].n

\* Connection 1 got two events, with an event for connection 2 emitted
\* between them and delivered too.
C13_Witness ==
  /\ Len(sockOut[1]) = 2
  /\ Len(sockOut[2]) = 1
  /\ sockOut[1][1].n < sockOut[2][1].n
  /\ sockOut[2][1].n < sockOut[1][2].n

\* The step is u's read pump taking a frame that does not deserialize.
DecodeErrorStep(u) ==
  /\ rp[u] = "read"
  /\ inSock[u] # <<>>
  /\ Head(inSock[u]).p = BadFrame
  /\ inSock'[u] = Tail(inSock[u])

\* C14: a frame that does not deserialize ends the read pump of its
\* connection and nothing else: the instance, the Router loops, the
\* Registry, every channel, every write pump and the read pumps of the
\* other connections are as they were.
C14_DecodeErrorLocal ==
  [][\A u \in Conn : DecodeErrorStep(u) =>
       /\ rp'[u] = "done"
       /\ \A v \in Conn \ {u} : rp'[v] = rp[v] /\ inSock'[v] = inSock[v]
       /\ UNCHANGED <<lifeVars, chanVars, loopVars, msg_chan, msg_rx, wp, wmsg,
                       rcmd, clientClosed, sockOut, calls, decoded, taken>>
    ]_vars

\* Connection 1 sent a frame that does not deserialize and its read pump
\* has ended; the frame connection 2 wrote after it was dispatched by the
\* same instance, which is still running.
C14_Witness ==
  /\ nextInst = 2
  /\ instance = 1
  /\ wpc[1] = "running"
  /\ rp[1] = "done"
  /\ ~clientClosed[1]
  /\ \E k \in DOMAIN calls :
       calls[k].n = 2 /\ <<calls[k].hi, calls[k].lo>> = AsU64Pair(2)

\* C15: whichever form writes and whichever form reads, no call returns an
\* error and the messages decoded are the messages sent, in order; and for
\* every message sent both encoders emit the same frame, the payload length
\* as LenFieldBytes big-endian bytes followed by the payload.
C15_RoundTripInterchange ==
  /\ cErr = "none"
  /\ cOut = SubSeq(cMsgs, 1, Len(cOut))
  /\ \A k \in 1..cSent :
       /\ ~AsyncEncodeFails(cMsgs[k])
       /\ SyncWrite(cMsgs[k]) = AsyncEncode(cMsgs[k])
       /\ FromBeBytes(SubSeq(SyncWrite(cMsgs[k]), 1, LenFieldBytes))
            = Len(Serialize(cMsgs[k]))

\* The frames of the messages ms, one after the other.
RECURSIVE FramesOf(_)
FramesOf(ms) ==
  IF ms = <<>> THEN <<>> ELSE SyncWrite(Head(ms)) \o FramesOf(Tail(ms))

\* The messages whose frames the writing peer has put on the stream.
Written ==
  SubSeq(cMsgs, 1, IF cErr = "encode" THEN cSent - 1 ELSE cSent)

\* The bytes the stream decoder has taken out of its buffer for the frame
\* it is in the middle of: the prefix, once it has read it.
HeadTaken == IF cState = -1 THEN <<>> ELSE ToBeBytes(cState)

\* The buffer src of a decoder in state st holds the last byte of the
\* current frame.
FrameBuffered(src, st) ==
  IF st = -1
    THEN /\ Len(src) >= LenFieldBytes
         /\ Len(src) >= LenFieldBytes + FromBeBytes(SubSeq(src, 1, LenFieldBytes))
    ELSE Len(src) >= st

\* The step is a call of the stream decoder's decode.
DecodeCall ==
  /\ cDec = "async"
  /\ cErr = "none"
  /\ UNCHANGED <<cSent, cWire>>

\* C16: frames reach the stream decoder in chunks cut at any byte boundary.
\* A call of decode never fails; it yields a message exactly when the last
\* byte of the current frame is buffered, and then one message only; the
\* messages yielded are the messages written, in order; and every byte
\* written is either in a message yielded, taken as the current prefix,
\* buffered or still to arrive, none lost and none twice.
C16_PartialFrames ==
  [][/\ DecodeCall =>
          /\ cErr' = "none"
          /\ Len(cOut') = Len(cOut) + (IF FrameBuffered(cSrc, cState) THEN 1 ELSE 0)
     /\ cDec = "async" =>
          /\ cOut' = SubSeq(cMsgs, 1, Len(cOut'))
          /\ FramesOf(cOut') \o HeadTaken' \o cSrc' \o cWire' = FramesOf(Written')
    ]_vars

\* C17: an accept error changes nothing but the count of errors: the accept
\* loop is back at accept, the Router loops, the Registry, the pumps and the
\* instance are as they were, so a later accept is served as if the error
\* had not happened.
C17_AcceptErrorHarmless ==
  [][acceptErrs' # acceptErrs =>
       /\ apc' = "accept"
       /\ UNCHANGED <<lifeVars, chanVars, connVars, logVars>>
       /\ UNCHANGED <<listener, conns, shardOf, nextConn, rpc, routeMsg, dpc,
                      cmd_chan, cmd_rx>>
    ]_vars

\* An accept failed, and the instance is running with a connection
\* registered, whose two pumps run, and the accept loop at accept.
C17_Witness ==
  /\ acceptErrs = MaxAcceptErr
  /\ instance # 0
  /\ wpc[instance] = "running"
  /\ apc = "accept"
  /\ \E u \in conns : wp[u] = "recv" /\ rp[u] = "read"

\* The step is on_csharp_assembly_unload clearing a registered callback.
UnloadStep ==
  unity_state # 0 /\ unity_state' = 0 /\ UNCHANGED wpc

\* The step is send_cmd_to_unity_loop taking a command while no callback is
\* registered.
DropStep ==
  /\ unity_state = 0
  /\ dpc = "recv"
  /\ cmd_chan # <<>>
  /\ cmd_chan' = Tail(cmd_chan)
  /\ UNCHANGED <<rp, inSock, wpc>>

\* C18: on_csharp_assembly_unload clears the callback and nothing else, and
\* a command received while no callback is registered is consumed without
\* any callback invocation and without anything sent to a client; the
\* instance, the listener, the accept loop, the Registry and the pumps are
\* as they were and the dispatch loop goes on receiving.
C18_NoAdapterDrops ==
  [][/\ UnloadStep =>
          UNCHANGED <<instance, listener, conns, apc, rpc, dpc, cmd_chan,
                      chanVars, connVars, logVars>>
     /\ DropStep =>
          /\ dpc' = "recv"
          /\ UNCHANGED <<lifeVars, chanVars, connVars, calls, dropped>>
          /\ UNCHANGED <<listener, conns, apc, rpc, routeMsg, cmd_rx>>
    ]_vars

\* After an unload, a command decoded on a registered connection was
\* consumed by the dispatch loop with no callback invocation; the first
\* instance is still running and its accept loop accepting.
C18_Witness ==
  /\ nextInst = 2
  /\ instance = 1
  /\ wpc[1] = "running"
  /\ unity_state = 0
  /\ apc = "accept"
  /\ dpc = "recv"
  /\ calls = <<>>
  /\ cmd_chan = <<>>
  /\ \E c \in decoded :
       /\ c.uuid \in conns
       /\ c \notin taken
       /\ \A u \in Conn : rcmd[u] # c

\* C19: once the Router has ended (whichever branch of the select! ended
\* it) or the worker thread is exiting for another reason, the teardown runs
\* through: as long as a worker thread has left the Router and has not yet
\* finished its teardown, the server has a step to take (so a finite run
\* refutes it).
C19_ExitClearsSlot ==
  \A i \in Inst :
    (~procAborted /\ wpc[i] \in {"rt_drop", "guard_inst", "guard_unity"})
      => ENABLED SystemNext

\* The event-delivery loop of instance i waits to enqueue on a channel that
\* was full, and the write pump has since freed a slot.
SlotFreed(i) ==
  /\ ~procAborted
  /\ wpc[i] = "running"
  /\ rpc = "sending"
  /\ stop_chan[i] = 0
  /\ dpc # "in_cb"
  /\ msg_rx[routeMsg.to]
  /\ Len(msg_chan[routeMsg.to]) < MsgChanCap

\* C20: the event-delivery loop blocked on a full channel keeps the event,
\* and once the write pump has freed a slot the pending enqueue can
\* complete and delivery resumes.
C20_ResumesWhenSlotFreed ==
  \A i \in Inst :
    SlotFreed(i) => routeMsg # NoMsg /\ ENABLED RouteSendComplete(i)

\* C21: the codec has no size ceiling: for every message written, whatever
\* the length of its payload, the stream encoder accepts it, the stream
\* decoder accepts the frame the blocking encoder writes for it, and the
\* prefix the blocking encoder writes is the payload's length.
C21_NoSizeCeiling ==
  \A k \in 1..cSent :
    LET m == cMsgs[k]
    IN /\ ~AsyncEncodeFails(m)
       /\ AsyncDecode(SyncWrite(m), -1).res = "some"
       /\ FromBeBytes(SubSeq(SyncWrite(m), 1, LenFieldBytes)) = Len(Serialize(m))

\* C22: when the discovery deadline passes with two or more candidates that
\* matched only by prefix, discover_service has returned an Err result to its
\* caller (it neither returned a candidate nor panicked).
C22_AmbiguityIsError ==
  (dDeadline /\ Len(dServices) >= 2) => dPc = "returned_err"

\* A service matches one supplied filter: the path by equality of the
\* canonical paths (of the paths as given when one does not resolve), the
\* project and the session by prefix.
MatchesPath(args, service) ==
  IF Canonicalize(args.path) # NoPath /\ Canonicalize(service.path) # NoPath
    THEN Canonicalize(args.path) = Canonicalize(service.path)
    ELSE args.path = service.path

MatchesEvery(args, service) ==
  /\ args.path # NoPath => MatchesPath(args, service)
  /\ args.project # NoName => StartsWith(service.project, args.project)
  /\ args.session # NoName => StartsWith(service.session, args.session)

\* C30: every service discover_service returns, and every candidate it keeps,
\* matches each filter the caller supplied, for every combination of --path,
\* --project and --session.
C30_MatchesEveryFilter ==
  /\ dPc = "returned" => MatchesEvery(dArgs, dResult)
  /\ \A k \in 1..Len(dServices) : MatchesEvery(dArgs, dServices[k])

\* C23: while an invocation of the command callback has not returned, the
\* accept loop can accept a pending connection, the event-delivery loop can
\* take a queued event, and a queued stop signal is observed.
C23_LoopsIndependent ==
  \A i \in Inst :
    (~procAborted /\ wpc[i] = "running" /\ dpc = "in_cb") =>
      /\ (stop_chan[i] = 0 /\ apc = "accept" /\ nextConn <= MaxConn
            /\ nextConn < UuidHalf * UuidHalf)
           => ENABLED (\E s \in Shard : Accept(i, s))
      /\ (stop_chan[i] = 0 /\ rpc = "recv" /\ unity_msg_chan[i] # <<>>)
           => ENABLED RouteRecv(i)
      /\ stop_chan[i] > 0 => ENABLED RouterExit(i)

\* A step of the task that polls the select! of instance i.
RouterStep(i) ==
  \/ \E s \in Shard : Accept(i, s)
  \/ AcceptError(i)
  \/ RouteRecv(i)
  \/ RouteSendComplete(i)
  \/ DispatchRecv(i)
  \/ RouterExit(i)

\* C24: an insert into the Registry that has to wait for the lookup result
\* the event-delivery loop holds does not wait forever: whenever the accept
\* loop waits to insert, whichever shard the new ConnectionId falls in, the
\* Router task can still take a step.
C24_InsertNeverWedged ==
  \A i \in Inst :
    (~procAborted /\ wpc[i] = "running" /\ rpc = "sending" /\ apc = "insert")
      => ENABLED RouterStep(i)

\* C25: when a write pump has left its loop on a write error while the
\* event-delivery loop waits to enqueue on that connection's channel, the
\* pump's Registry removal or the loop's pending enqueue can go ahead (at
\* once, or after a callback in progress returns or a queued stop signal is
\* taken): the two never wait on each other.
C25_ReleaseCompletes ==
  \A u \in Conn :
    (RuntimeLive /\ wp[u] = "release" /\ rpc = "sending" /\ routeMsg.to = u
       /\ apc # "insert")
      => \/ ENABLED WriteRelease(u)
         \/ ENABLED (\E i \in Inst : RouteSendComplete(i))
         \/ ENABLED (\E i \in Inst : RouterExit(i) \/ CallbackReturn(i))

\* The teardown of instance j takes its second step, clearing the adapter
\* slot, after a run call has registered a callback and installed a newer
\* instance.
TeardownAfterInstall(j) ==
  /\ GuardDropUnity(j)
  /\ instance # 0
  /\ instance # j
  /\ unity_state # 0

\* C26: when a run call races with the teardown of the previous instance
\* and installs a new instance, the callback it registered stays registered:
\* the teardown's clearing of the adapter slot does not remove it.
C26_InstallKeepsCallback ==
  [][\A j \in Inst : TeardownAfterInstall(j) => unity_state' = unity_state]_vars

\* C27: on every start/stop cycle (every earlier instance torn down
\* completely), once run has occupied the slot, the rest
\* of run (the logging initialisation and the spawn of the worker thread)
\* succeeds, so that the new instance gets its Router.
C27_RestartSucceeds ==
  (/\ ~procAborted
   /\ callerPc = "run_init"
   /\ \A j \in Inst \ {callerInst} : wpc[j] \in {"none", "done"})
    => ENABLED RunInitOk

\* C28: while the adapter slot is empty (on_csharp_assembly_unload has
\* returned and no later run has registered a callback) no invocation of
\* the callback is in progress and none starts; an invocation in progress
\* is one of the callback currently registered, so an unload waits for it.
C28_NoCallAfterUnload ==
  dpc = "in_cb" =>
    /\ unity_state # 0
    /\ calls # <<>>
    /\ calls[Len(calls)].cb = unity_state

\* The adapter unloaded after a command was dispatched to it, and a further
\* command waits at the dispatch loop of the still running first instance.
C28_Witness ==
  /\ ~procAborted
  /\ instance = 1
  /\ nextInst = 2
  /\ wpc[1] = "running"
  /\ unity_state = 0
  /\ calls # <<>>
  /\ dpc = "recv"
  /\ cmd_chan # <<>>

\* The worker thread of instance i panicked during start-up and its
\* GlobalStatesGuard is being dropped: stop_rx, which the async block never
\* took, is still owned by the closure.
StartFailTeardown(i) ==
  /\ ~procAborted
  /\ wpc[i] \in {"guard_inst", "guard_unity"}
  /\ stop_rx[i]

\* C29: when the worker thread fails during start-up, the teardown clears
\* the singleton slot and then the adapter slot: each of its two steps can
\* be taken when it is reached, so that is_running() becomes false.
C29_StartFailClearsSlots ==
  \A i \in Inst :
    StartFailTeardown(i) =>
      /\ wpc[i] = "guard_inst" => ENABLED GuardDropInstance(i)
      /\ wpc[i] = "guard_unity" => ENABLED GuardDropUnity(i) /\ instance # i

====
